---- MODULE Spec2Model ----
(***************************************************************************)
(* Model of placement_reminder_bot.py: the role store, the abuse guard,    *)
(* the reminder store, the APScheduler job set and the deletion approval   *)
(* workflow.  Time is counted in seconds of true (UTC) time.               *)
(***************************************************************************)
EXTENDS Integers, Sequences, FiniteSets, TLC

\* ---------------------------------------------------------------- bounds
MaxQuarters == 10       \* Spec: the clock runs over 0 .. MaxQuarters quarter hours
MaxReminders == 1       \* reminders.insert_one is called at most this often
MaxGuardTicks == 3      \* GuardSpec: the clock makes at most this many steps
MaxBurst == 7           \* a caller's recorded window never grows beyond this

\* ------------------------------------------------------ program constants
SUPERADMIN_ID == 1
REQUEST_LIMIT == 5
TIME_WINDOW == 10
QUARTER == 900          \* timedelta(minutes=15), in seconds

Users == {SUPERADMIN_ID, 2, 3}
RIds == 1 .. MaxReminders

\* The host's UTC offset in seconds: datetime.now() and astimezone() use the
\* server's local zone, which the deployment fixes.
HostOffsets == {0, 4 * QUARTER}

VARIABLES
    now,              \* true time, seconds
    tz,               \* UTC offset of the host's local zone
    up,               \* the process is running (post_init has completed)
    admins,           \* db["admins"]: user -> "none" | "admin" | "superadmin"
    reminders,        \* db["reminders"]: set of [id, time]
    nextId,           \* the next ObjectId insert_one mints
    jobs,             \* scheduler jobs of reminders: set of [rid, idx, at]
    pending_deletes,  \* db["pending_deletes"]: set of [rid, requested_by]
    blocked,          \* db["blocked_users"]: set of user ids
    user_requests     \* user -> sequence of request timestamps

vars == <<now, tz, up, admins, reminders, nextId, jobs, pending_deletes,
          blocked, user_requests>>

\* ------------------------------------------------------------ role store
is_superadmin(u) == admins[u] = "superadmin"

is_admin_or_superadmin(u) == admins[u] # "none"

\* lines 45-48: insert the superadmin unless some superadmin entry exists
SeedSuperadmin(a) ==
    IF \E u \in Users : a[u] = "superadmin" THEN a
    ELSE [a EXCEPT ![SUPERADMIN_ID] = "superadmin"]

\* ----------------------------------------------------------- abuse guard
is_blocked(u) == u \in blocked

\* rate_limit: the caller's window after pruning and appending now
RateWindow(u) ==
    Append(SelectSeq(user_requests[u], LAMBDA t : now - t < TIME_WINDOW), now)

\* mutant of rate_limit: refuses the request that reaches the limit
rate_limit_at_limit(u) == Len(RateWindow(u)) < REQUEST_LIMIT

rate_limit(u) == Len(RateWindow(u)) <= REQUEST_LIMIT

\* mutant of check_spam: looks at the block list before the role
check_spam_block_first(u) ==
    IF is_blocked(u) THEN "blocked"
    ELSE IF is_admin_or_superadmin(u) THEN "ok"
    ELSE IF ~rate_limit(u) THEN "spam"
    ELSE "ok"

\* check_spam: "ok" lets the handler run, the others are the two refusals
check_spam(u) ==
    IF is_admin_or_superadmin(u) THEN "ok"
    ELSE IF is_blocked(u) THEN "blocked"
    ELSE IF ~rate_limit(u) THEN "spam"
    ELSE "ok"

\* user_requests after check_spam(u): rate_limit runs only for a caller who
\* is neither an operator nor blocked
RequestsAfter(u) ==
    IF is_admin_or_superadmin(u) \/ is_blocked(u) THEN user_requests
    ELSE [user_requests EXCEPT ![u] = RateWindow(u)]

\* blocked after check_spam(u): block_user upserts the caller
BlockedAfter(u) ==
    IF check_spam(u) = "spam" THEN blocked \cup {u} ELSE blocked

\* -------------------------------------------------------------- scheduler
\* _get_intervals: the lead offsets, in seconds
Intervals == <<8 * QUARTER, 4 * QUARTER, 2 * QUARTER, QUARTER, 0>>

\* datetime.now(): the naive local wall clock
LocalNow == now + tz

\* A datetime is [t, aware]: an aware one carries the true instant t, a naive
\* one the wall-clock reading t with no zone.
\* remind, lines 245-247: strptime, replace(tzinfo=IST), astimezone() give an
\* aware datetime of the instant the caller typed.
ServerTime(T) == [t |-> T, aware |-> TRUE]

\* What reminders.find returns for a stored time: the driver stores the
\* instant and hands back a naive datetime reading UTC.
StoredTime(T) == [t |-> T, aware |-> FALSE]

\* run_time > now at line 118, now = datetime.now() being naive: ordering an
\* aware datetime against a naive one raises TypeError, at the first entry.
ScheduleRaises(reminder_time) == reminder_time.aware

\* mutant of NewJobs: registers every ladder entry, past ones included
NewJobs_all_entries(rid, reminder_time) ==
    { [rid |-> rid, idx |-> i, at |-> (reminder_time.t - Intervals[i]) - tz] :
        i \in 1 .. Len(Intervals) }

\* The jobs schedule_reminder_jobs adds for a naive reminder_time:
\* run_time = reminder_time - offset, kept when run_time > now; the scheduler
\* reads the naive run_date in its local zone, so the job fires at the true
\* instant run_time - tz.
NewJobs(rid, reminder_time) ==
    { [rid |-> rid, idx |-> i, at |-> (reminder_time.t - Intervals[i]) - tz] :
        i \in { k \in 1 .. Len(Intervals) :
                   reminder_time.t - Intervals[k] > LocalNow } }

\* schedule_reminder_jobs(rid, reminder_time) on the job set js: each kept
\* entry replaces the job of the same id; nothing is added when the
\* comparison raises
schedule_reminder_jobs(js, rid, reminder_time) ==
    IF ScheduleRaises(reminder_time) THEN js
    ELSE LET new == NewJobs(rid, reminder_time)
         IN  { j \in js : ~ \E n \in new : n.rid = j.rid /\ n.idx = j.idx }
                 \cup new

\* The argument of deletereminder / approve / reject is text.  <<"lower", i>>
\* is str(ObjectId) of reminder i, <<"upper", i>> the same hex digits in upper
\* case, <<"bad", 0>> text ObjectId() rejects, <<"none", 0>> no argument.
NoArg == <<"none", 0>>
BadArg == <<"bad", 0>>
IdArgs == { <<c, i>> : c \in {"lower", "upper"}, i \in RIds }
Args == IdArgs \cup {NoArg, BadArg}

\* ObjectId(rid): bytes.fromhex accepts either case
ObjectId(arg) == arg[2]

\* str(ObjectId): hexlify gives lower case
StrId(i) == <<"lower", i>>

\* job.id.startswith(f"{rid}_"): job ids are built from str(inserted_id)
JobMatches(j, arg) == StrId(j.rid) = arg

\* mutant of remove_reminder_jobs: stops after the first job it removes
remove_reminder_jobs_first(js, arg) ==
    { j \in js : ~(JobMatches(j, arg) /\
                    \A k \in js : JobMatches(k, arg) => j.idx <= k.idx) }

\* remove_reminder_jobs(rid)
remove_reminder_jobs(js, arg) == { j \in js : ~JobMatches(j, arg) }

\* ------------------------------------------------------------------ Init
Init ==
    /\ now = 0
    /\ tz \in HostOffsets
    /\ up = TRUE
    /\ admins = SeedSuperadmin([u \in Users |-> "none"])
    /\ reminders = {}
    /\ nextId = 1
    /\ jobs = {}
    /\ pending_deletes = {}
    /\ blocked = {}
    /\ user_requests = [u \in Users |-> <<>>]

\* -------------------------------------------------------------- handlers
\* What a handler does is its outcome: the reply sent to the caller and the
\* collections and job set it leaves.  Keep(r) replies r and changes nothing.
Keep(r) ==
    [reply |-> r, admins |-> admins, reminders |-> reminders, nextId |-> nextId,
     jobs |-> jobs, pending_deletes |-> pending_deletes, blocked |-> blocked]

\* "if not await check_spam(update): return" in front of a handler body: a
\* refused caller gets the refusal (and, on the sixth request, the block)
Guarded(u, out) ==
    IF check_spam(u) # "ok"
    THEN [Keep(check_spam(u)) EXCEPT !.blocked = BlockedAfter(u)]
    ELSE out

\* The handler runs for caller u with outcome out; check_spam has recorded
\* the request.
Run(u, out) ==
    /\ Len(RequestsAfter(u)[u]) <= MaxBurst
    /\ user_requests' = RequestsAfter(u)
    /\ admins' = out.admins
    /\ reminders' = out.reminders
    /\ nextId' = out.nextId
    /\ jobs' = out.jobs
    /\ pending_deletes' = out.pending_deletes
    /\ blocked' = out.blocked
    /\ UNCHANGED <<now, tz, up>>

start_out(u) == Guarded(u, Keep("done"))

start(u) ==
    /\ up
    /\ Run(u, start_out(u))

\* ping replies without calling check_spam
ping_out(u) == Keep("pong")

ping(u) ==
    /\ up
    /\ UNCHANGED vars

UserArgs == { <<"int", u>> : u \in Users } \cup {NoArg}

add_admin_out(u, arg) ==
    Guarded(u,
        IF ~is_superadmin(u) THEN Keep("unauthorized")
        ELSE IF arg = NoArg THEN Keep("usage")
        ELSE IF admins[arg[2]] # "none" THEN Keep("warn")
        ELSE [Keep("done") EXCEPT !.admins = [admins EXCEPT ![arg[2]] = "admin"]])

add_admin(u, arg) ==
    /\ up
    /\ Run(u, add_admin_out(u, arg))

\* mutant of remove_admin_out: deletes the entry whatever its role
remove_admin_out_any_role(u, arg) ==
    Guarded(u,
        IF ~is_superadmin(u) THEN Keep("unauthorized")
        ELSE IF arg = NoArg THEN Keep("usage")
        ELSE IF admins[arg[2]] = "none" THEN Keep("warn")
        ELSE [Keep("done") EXCEPT !.admins = [admins EXCEPT ![arg[2]] = "none"]])

remove_admin_out(u, arg) ==
    Guarded(u,
        IF ~is_superadmin(u) THEN Keep("unauthorized")
        ELSE IF arg = NoArg THEN Keep("usage")
        ELSE IF admins[arg[2]] # "admin" THEN Keep("warn")
        ELSE [Keep("done") EXCEPT !.admins = [admins EXCEPT ![arg[2]] = "none"]])

remove_admin(u, arg) ==
    /\ up
    /\ Run(u, remove_admin_out(u, arg))

list_admins_out(u) ==
    Guarded(u, IF ~is_superadmin(u) THEN Keep("unauthorized") ELSE Keep("done"))

list_admins(u) ==
    /\ up
    /\ Run(u, list_admins_out(u))

unblock_cmd_out(u, arg) ==
    Guarded(u,
        IF ~is_superadmin(u) THEN Keep("unauthorized")
        ELSE IF arg = NoArg THEN Keep("usage")
        ELSE IF ~is_blocked(arg[2]) THEN Keep("warn")
        ELSE [Keep("done") EXCEPT !.blocked = blocked \ {arg[2]}])

unblock_cmd(u, arg) ==
    /\ up
    /\ Run(u, unblock_cmd_out(u, arg))

list_blocked_out(u) ==
    Guarded(u, IF ~is_superadmin(u) THEN Keep("unauthorized") ELSE Keep("done"))

list_blocked(u) ==
    /\ up
    /\ Run(u, list_blocked_out(u))

broadcast_out(u, empty) ==
    Guarded(u,
        IF ~is_superadmin(u) THEN Keep("unauthorized")
        ELSE IF empty THEN Keep("usage")
        ELSE Keep("done"))

broadcast(u, empty) ==
    /\ up
    /\ Run(u, broadcast_out(u, empty))

\* remind: input is "malformed" (missing arguments or a date strptime
\* rejects), "empty" (no message words) or "ok"; T is the instant typed.
\* The record is inserted before schedule_reminder_jobs runs; when that
\* raises, the except clause replies with the usage text.
RemindInputs == {"malformed", "empty", "ok"}

remind_out(u, input, T) ==
    Guarded(u,
        IF ~is_admin_or_superadmin(u) THEN Keep("unauthorized")
        ELSE IF input = "malformed" THEN Keep("usage")
        ELSE IF input = "empty" THEN Keep("empty_message")
        ELSE [Keep(IF ScheduleRaises(ServerTime(T)) THEN "usage" ELSE "done")
                EXCEPT !.reminders = reminders \cup {[id |-> nextId, time |-> T]},
                       !.nextId = nextId + 1,
                       !.jobs = schedule_reminder_jobs(jobs, nextId, ServerTime(T))])

remind(u, input, T) ==
    /\ up
    /\ remind_out(u, input, T).nextId <= MaxReminders + 1
    /\ Run(u, remind_out(u, input, T))

list_reminders_out(u) == Guarded(u, Keep("done"))

list_reminders(u) ==
    /\ up
    /\ Run(u, list_reminders_out(u))

\* reminders.find_one({"_id": ObjectId(rid)})
FindReminder(arg) == { r \in reminders : r.id = ObjectId(arg) }

\* pending_deletes.find_one({"rid": rid}): keyed by the text as typed
FindPending(arg) == { p \in pending_deletes : p.rid = arg }

\* mutant of UpsertPending: inserts a record without looking for one
InsertPending(arg, u) ==
    pending_deletes \cup {[rid |-> arg, requested_by |-> u]}

\* pending_deletes.update_one({"rid": rid}, {"$set": ...}, upsert=True)
UpsertPending(arg, u) ==
    (pending_deletes \ FindPending(arg)) \cup {[rid |-> arg, requested_by |-> u]}

delete_reminder_out(u, arg) ==
    Guarded(u,
        IF arg \in {NoArg, BadArg} THEN Keep("usage")
        ELSE IF FindReminder(arg) = {} THEN Keep("not_found")
        ELSE IF is_superadmin(u)
             THEN [Keep("done") EXCEPT !.reminders = reminders \ FindReminder(arg),
                                       !.jobs = remove_reminder_jobs(jobs, arg)]
        ELSE IF is_admin_or_superadmin(u)
             THEN [Keep("requested") EXCEPT !.pending_deletes = UpsertPending(arg, u)]
        ELSE Keep("none"))

delete_reminder(u, arg) ==
    /\ up
    /\ Run(u, delete_reminder_out(u, arg))

approve_delete_out(u, arg) ==
    Guarded(u,
        IF ~is_superadmin(u) THEN Keep("none")
        ELSE IF arg = NoArg THEN Keep("none")
        ELSE IF FindPending(arg) = {} THEN Keep("not_found")
        ELSE [Keep("done") EXCEPT !.reminders = reminders \ FindReminder(arg),
                                  !.jobs = remove_reminder_jobs(jobs, arg),
                                  !.pending_deletes = pending_deletes \ FindPending(arg)])

approve_delete(u, arg) ==
    /\ up
    /\ Run(u, approve_delete_out(u, arg))

\* mutant of reject_delete_out: resolves the request the way approve does
reject_delete_out_as_approve(u, arg) ==
    [approve_delete_out(u, arg) EXCEPT
        !.reply = IF @ = "done" THEN "rejected" ELSE @]

reject_delete_out(u, arg) ==
    Guarded(u,
        IF ~is_superadmin(u) THEN Keep("none")
        ELSE IF arg = NoArg THEN Keep("none")
        ELSE IF FindPending(arg) = {} THEN Keep("not_found")
        ELSE [Keep("rejected") EXCEPT !.pending_deletes = pending_deletes \ FindPending(arg)])

reject_delete(u, arg) ==
    /\ up
    /\ Run(u, reject_delete_out(u, arg))

\* -------------------------------------------------- process and scheduler
\* reload_reminders: reminders.find({"time": {"$gte": now}}) with the naive
\* local now, which the driver reads as UTC; then schedule_reminder_jobs for
\* each, with the naive stored time
RECURSIVE ReloadAll(_, _)
ReloadAll(js, rs) ==
    IF rs = {} THEN js
    ELSE LET r == CHOOSE x \in rs : TRUE
         IN  ReloadAll(schedule_reminder_jobs(js, r.id, StoredTime(r.time)),
                       rs \ {r})

reload_reminders(js) ==
    ReloadAll(js, { r \in reminders : r.time >= LocalNow })

\* The process dies: the scheduler's jobs and user_requests live in memory.
Crash ==
    /\ up
    /\ up' = FALSE
    /\ jobs' = {}
    /\ user_requests' = [u \in Users |-> <<>>]
    /\ UNCHANGED <<now, tz, admins, reminders, nextId, pending_deletes, blocked>>

\* The process starts: module import seeds the superadmin, post_init runs
\* reload_reminders, then polling begins.
Startup ==
    /\ ~up
    /\ up' = TRUE
    /\ admins' = SeedSuperadmin(admins)
    /\ jobs' = reload_reminders(jobs)
    /\ UNCHANGED <<now, tz, reminders, nextId, pending_deletes, blocked,
                   user_requests>>

\* Time passes by d seconds; the scheduler runs and drops every date job
\* whose run date has come (send_reminder only sends).
Tick(d) ==
    /\ now' = now + d
    /\ jobs' = { j \in jobs : j.at > now + d }
    /\ UNCHANGED <<tz, up, admins, reminders, nextId, pending_deletes,
                   blocked, user_requests>>

\* ------------------------------------------------------- specifications
\* Spec: the operators' view.  Commands come from callers holding a role,
\* the clock moves in quarter hours.
TargetTimes == { 2 * QUARTER, (MaxQuarters - 1) * QUARTER }

Operators == { u \in Users : is_admin_or_superadmin(u) }

Next ==
    \/ \E u \in Operators : start(u)
    \/ \E u \in Operators : ping(u)
    \/ \E u \in Operators, a \in UserArgs : add_admin(u, a)
    \/ \E u \in Operators, a \in UserArgs : remove_admin(u, a)
    \/ \E u \in Operators : list_admins(u)
    \/ \E u \in Operators, a \in UserArgs : unblock_cmd(u, a)
    \/ \E u \in Operators : list_blocked(u)
    \/ \E u \in Operators, e \in BOOLEAN : broadcast(u, e)
    \/ \E u \in Operators, i \in RemindInputs, T \in TargetTimes : remind(u, i, T)
    \/ \E u \in Operators : list_reminders(u)
    \/ \E u \in Operators, a \in Args : delete_reminder(u, a)
    \/ \E u \in Operators, a \in Args : approve_delete(u, a)
    \/ \E u \in Operators, a \in Args : reject_delete(u, a)
    \/ Crash
    \/ Startup
    \/ (now + QUARTER <= MaxQuarters * QUARTER /\ Tick(QUARTER))

Spec == Init /\ [][Next]_vars

\* GuardSpec: the abuse guard's view.  User 2 sends every command, the
\* superadmin manages user 2's role and block entry, the clock moves in
\* steps of half a rate-limit window.  No reminder is created here.
GuardStep == TIME_WINDOW \div 2

GuardNext ==
    \/ start(2)
    \/ ping(2)
    \/ \E a \in UserArgs : add_admin(2, a)
    \/ \E a \in UserArgs : remove_admin(2, a)
    \/ list_admins(2)
    \/ \E a \in UserArgs : unblock_cmd(2, a)
    \/ list_blocked(2)
    \/ \E e \in BOOLEAN : broadcast(2, e)
    \/ \E i \in {"malformed", "empty"}, T \in TargetTimes : remind(2, i, T)
    \/ list_reminders(2)
    \/ \E a \in Args : delete_reminder(2, a)
    \/ \E a \in Args : approve_delete(2, a)
    \/ \E a \in Args : reject_delete(2, a)
    \/ add_admin(SUPERADMIN_ID, <<"int", 2>>)
    \/ remove_admin(SUPERADMIN_ID, <<"int", 2>>)
    \/ unblock_cmd(SUPERADMIN_ID, <<"int", 2>>)
    \/ Crash
    \/ Startup
    \/ (now + GuardStep <= MaxGuardTicks * GuardStep /\ Tick(GuardStep))

GuardSpec == Init /\ [][GuardNext]_vars

\* ----------------------------------------------------------------- claims
\* The ladder candidates of reminder r that are strictly in the future: the
\* timer keyed (r.id, i) fires at r.time - Intervals[i].
FutureCandidates(r) ==
    { [rid |-> r.id, idx |-> i, at |-> r.time - Intervals[i]] :
        i \in { k \in 1 .. Len(Intervals) : r.time - Intervals[k] > now } }

TimersOf(i) == { j \in jobs : j.rid = i }

\* C1: while the process runs, every stored reminder's live timers are
\* exactly its ladder candidates whose fire time is strictly in the future.
C1_TimersAreFutureCandidates ==
    up => \A r \in reminders : TimersOf(r.id) = FutureCandidates(r)

\* C2: the number of timers registered when a reminder is created depends on
\* targetTime relative to now: 5 when targetTime >= now + 2h, 2 when
\* now + 15m < targetTime <= now + 30m, 0 (and no change of the timer set)
\* when targetTime <= now.
C2_ScheduleAllCounts ==
    [][\A u \in Users, T \in TargetTimes :
         (is_admin_or_superadmin(u) /\ remind(u, "ok", T)) =>
            LET n == Cardinality({ j \in jobs' : j.rid = nextId })
            IN  /\ (T >= now + 8 * QUARTER) => n = 5
                /\ (now + QUARTER < T /\ T <= now + 2 * QUARTER) => n = 2
                /\ (T <= now) => (n = 0 /\ jobs' = jobs)]_vars

\* C3: every live reminder timer belongs to a reminder present in the store.
C3_NoTimerWithoutReminder ==
    \A j \in jobs : \E r \in reminders : r.id = j.rid

\* C4: after cancelAll(id) no live timer has reminder component id, whatever
\* its ladder index, and the timers of other reminders are kept; a second
\* cancelAll(id), or one for an id that has no timers, changes nothing.
C4_CancelAll ==
    \A i \in RIds :
        LET after == remove_reminder_jobs(jobs, StrId(i))
        IN  /\ \A j \in after : j.rid # i
            /\ after = jobs \ TimersOf(i)
            /\ remove_reminder_jobs(after, StrId(i)) = after
            /\ (TimersOf(i) = {} => after = jobs)

\* C4 witness: the reminder has all five timers live and cancelAll removes
\* every one of them.
C4_Witness ==
    /\ Cardinality(TimersOf(1)) = Len(Intervals)
    /\ remove_reminder_jobs(jobs, StrId(1)) = {}

\* C5: after a restart, reloadFromStore leaves exactly the in-future ladder
\* candidates of every stored reminder with targetTime >= now, and no timer
\* of a reminder with targetTime < now.
ReloadTarget ==
    UNION { FutureCandidates(r) : r \in { x \in reminders : x.time >= now } }

C5_ReloadRestoresTimers ==
    [][Startup => jobs' = ReloadTarget']_vars

\* C6: when a pending delete request exists for R, the superadmin's
\* approve(R) removes reminder R, cancels all of R's timers and removes the
\* pending record; approve(R) without a pending record replies NotFound
\* and changes nothing.
C6_Approve ==
    \A a \in IdArgs :
        LET out == approve_delete_out(SUPERADMIN_ID, a)
        IN  IF FindPending(a) # {}
            THEN /\ out.reply = "done"
                 /\ \A r \in out.reminders : r.id # ObjectId(a)
                 /\ \A j \in out.jobs : j.rid # ObjectId(a)
                 /\ \A q \in out.pending_deletes : q.rid # a
            ELSE out = Keep("not_found")

OnePendingPerId(pd) ==
    \A p \in pd, q \in pd : p.rid = q.rid => p = q

C9_SuperadminDelete ==
    \A a \in IdArgs :
        FindReminder(a) # {} =>
            LET out == delete_reminder_out(SUPERADMIN_ID, a)
            IN  /\ \A r \in out.reminders : r.id # ObjectId(a)
                /\ \A j \in out.jobs : j.rid # ObjectId(a)
                /\ out.pending_deletes \subseteq pending_deletes
                /\ \A q \in out.pending_deletes : ObjectId(q.rid) # ObjectId(a)

\* C10: a caller without a role who is not blocked is allowed as long as
\* fewer than REQUEST_LIMIT of the caller's earlier requests lie within the
\* last TIME_WINDOW, and is refused and blocked by the request that finds
\* REQUEST_LIMIT of them there (a step that records a request of the caller
\* is such a request); nobody is blocked by any other step, so a
\* caller who never has more than REQUEST_LIMIT requests in a window is
\* never blocked.
Recent(u) ==
    { k \in 1 .. Len(user_requests[u]) : now - user_requests[u][k] < TIME_WINDOW }

C10_RateLimit ==
    [][\A u \in Users :
         /\ (~is_admin_or_superadmin(u) /\ ~is_blocked(u)) =>
               (check_spam(u) = "ok" <=> Cardinality(Recent(u)) < REQUEST_LIMIT)
         /\ (/\ ~is_admin_or_superadmin(u) /\ ~is_blocked(u)
             /\ up /\ up' /\ user_requests'[u] # user_requests[u]) =>
               /\ Len(user_requests'[u]) = Cardinality(Recent(u)) + 1
               /\ (u \in blocked' <=> Cardinality(Recent(u)) >= REQUEST_LIMIT)
         /\ (u \in blocked' /\ u \notin blocked) =>
               /\ ~is_admin_or_superadmin(u)
               /\ Cardinality(Recent(u)) >= REQUEST_LIMIT
               /\ Len(user_requests'[u]) > REQUEST_LIMIT
               /\ \A k \in 1 .. Len(user_requests'[u]) :
                     now - user_requests'[u][k] < TIME_WINDOW]_vars

\* C10 witness: user 2 has just been blocked by a sixth request, after five
\* requests that were let through.
C10_Witness ==
    /\ 2 \in blocked
    /\ Len(user_requests[2]) = REQUEST_LIMIT + 1

\* C11: a caller holding the admin or superadmin role is always let through
\* by the abuse guard, whether or not a block entry exists for the caller;
\* the guard records no request of the caller, and no step puts a caller
\* who holds a role on the block list.
C11_OperatorsBypass ==
    [][\A u \in Users :
         is_admin_or_superadmin(u) =>
            /\ check_spam(u) = "ok"
            /\ start_out(u) = Keep("done")
            /\ RequestsAfter(u) = user_requests
            /\ BlockedAfter(u) = blocked
            /\ (u \notin blocked => u \notin blocked')]_vars

\* C11 witness: user 2 was blocked by the rate limiter, holds the admin
\* role now, and the block entry is still there.
C11_Witness ==
    /\ up
    /\ admins[2] = "admin"
    /\ 2 \in blocked
    /\ Len(user_requests[2]) > REQUEST_LIMIT

\* C12: from the moment a caller is blocked to the next unblock of the
\* caller, every request of the caller is refused by the abuse guard,
\* restarts included; no other operation makes the caller's requests
\* allowed again.
C12_OnlyUnblockRestores ==
    \A u \in Users : u \in blocked => check_spam(u) # "ok"

\* The outcome of every command of the command surface for caller u, over
\* all arguments.
CommandOuts(u) ==
    {[cmd |-> "start", out |-> start_out(u)],
     [cmd |-> "ping", out |-> ping_out(u)],
     [cmd |-> "listadmins", out |-> list_admins_out(u)],
     [cmd |-> "listblocked", out |-> list_blocked_out(u)],
     [cmd |-> "listreminders", out |-> list_reminders_out(u)]}
    \cup { [cmd |-> "addadmin", out |-> add_admin_out(u, a)] : a \in UserArgs }
    \cup { [cmd |-> "removeadmin", out |-> remove_admin_out(u, a)] : a \in UserArgs }
    \cup { [cmd |-> "unblock", out |-> unblock_cmd_out(u, a)] : a \in UserArgs }
    \cup { [cmd |-> "broadcast", out |-> broadcast_out(u, e)] : e \in BOOLEAN }
    \cup { [cmd |-> "remind", out |-> remind_out(u, x[1], x[2])] :
             x \in RemindInputs \X TargetTimes }
    \cup { [cmd |-> "deletereminder", out |-> delete_reminder_out(u, a)] : a \in Args }
    \cup { [cmd |-> "approve", out |-> approve_delete_out(u, a)] : a \in Args }
    \cup { [cmd |-> "reject", out |-> reject_delete_out(u, a)] : a \in Args }

\* C13: for a caller without a role the abuse guard runs first in every
\* command: a blocked caller gets the block refusal from each of them and
\* nothing else happens.
C13_GuardBeforeEveryCommand ==
    \A u \in Users :
        (~is_admin_or_superadmin(u) /\ is_blocked(u)) =>
            \A c \in CommandOuts(u) : c.out = Keep("blocked")

\* C14: the role store holds exactly one superadmin entry, the seeded one,
\* in every state; removeadmin applied to the superadmin's id warns and
\* changes nothing, and addadmin applied to it adds nothing.
Superadmins == { u \in Users : admins[u] = "superadmin" }

C14_OneSuperadmin ==
    /\ Superadmins = {SUPERADMIN_ID}
    /\ SeedSuperadmin(admins) = admins
    /\ remove_admin_out(SUPERADMIN_ID, <<"int", SUPERADMIN_ID>>) = Keep("warn")
    /\ add_admin_out(SUPERADMIN_ID, <<"int", SUPERADMIN_ID>>) = Keep("warn")

\* C14 witness: the process has restarted (timers come from the reload
\* only), an admin has been added, and the superadmin is still the one.
C14_Witness ==
    /\ up
    /\ jobs # {}
    /\ admins[2] = "admin"
    /\ admins[3] = "none"
    /\ is_superadmin(SUPERADMIN_ID)

\* C15: a command invoked by a caller lacking the role it requires (any
\* role for remind and deletereminder, superadmin for approve, reject,
\* addadmin, removeadmin, listadmins, broadcast, unblock, listblocked) answers
\* the caller with a refusal and leaves the roles, the reminders, the
\* pending delete requests and the timers unchanged.
OperatorCommands == {"remind", "deletereminder"}

SuperadminCommands ==
    {"approve", "reject", "addadmin", "removeadmin", "listadmins",
     "broadcast", "unblock", "listblocked"}

Refusals == {"unauthorized", "blocked", "spam"}

LacksRole(u, cmd) ==
    \/ cmd \in OperatorCommands /\ ~is_admin_or_superadmin(u)
    \/ cmd \in SuperadminCommands /\ ~is_superadmin(u)

C15_UnauthorizedRefused ==
    \A u \in Users : \A c \in CommandOuts(u) :
        LacksRole(u, c.cmd) =>
            /\ c.out.reply \in Refusals
            /\ c.out.admins = admins
            /\ c.out.reminders = reminders
            /\ c.out.pending_deletes = pending_deletes
            /\ c.out.jobs = jobs

\* C16: on every process start the reload has completed before the first
\* command is handled: in the state in which the started process takes its
\* first command, every stored reminder that is still in the future has the
\* timers of its in-future ladder entries registered.
LadderOf(js, i) == { j.idx : j \in { k \in js : k.rid = i } }

C16_ReloadBeforeCommands ==
    [][(~up /\ up') =>
          \A r \in reminders' :
              r.time >= now' =>
                  LadderOf(jobs', r.id) = LadderOf(FutureCandidates(r)', r.id)]_vars

\* C17: the timers of one reminder fire in ladder order.  A timer that
\* fires was due in the time that has just passed, and every timer of the
\* same reminder still pending has a later ladder index and a later fire
\* time; a timer is only ever registered with its fire time in the future,
\* so an entry already past at registration never fires.
C17_LadderOrder ==
    [][/\ \A j \in jobs' \ jobs : j.at > now'
       /\ \A j \in jobs' : j.at > now'
       /\ (now' # now) =>
              \A j \in jobs \ jobs' :
                  /\ now < j.at /\ j.at <= now'
                  /\ \A k \in jobs' :
                        k.rid = j.rid => (k.idx > j.idx /\ k.at > j.at)]_vars

\* C17 witness: reminder 1 has its last four timers pending, the 2h entry
\* being past, and the quarter hour that comes fires the 1h timer and
\* leaves the later three pending.
C17_Witness ==
    /\ up
    /\ reminders = {[id |-> 1, time |-> (MaxQuarters - 1) * QUARTER]}
    /\ LadderOf(jobs, 1) = {2, 3, 4, 5}
    /\ ENABLED (/\ Tick(QUARTER)
                /\ LadderOf(jobs', 1) = {3, 4, 5})

\* C18: every pending delete request refers to a reminder that is in the
\* store.
C18_PendingRefersToReminder ==
    \A p \in pending_deletes : FindReminder(p.rid) # {}

\* C19: after a superadmin's unblock of a caller the rate limiter blocked,
\* the caller's next request is allowed, however soon the unblock comes.
C19_AllowedAfterUnblock ==
    [][\A u \in Users :
         (u \in blocked /\ u \notin blocked' /\ ~is_admin_or_superadmin(u)') =>
             check_spam(u)' = "ok"]_vars

\* C20: remind is all-or-nothing.  When it answers with an error or the
\* usage text the reminders and the timers are unchanged; a record is stored
\* only together with the success reply and the timers of its in-future
\* ladder entries.
C20_RemindAllOrNothing ==
    \A u \in Users, i \in RemindInputs, T \in TargetTimes :
        (up /\ nextId <= MaxReminders) =>
            LET out == remind_out(u, i, T)
            IN  /\ out.reply # "done" =>
                      (out.reminders = reminders /\ out.jobs = jobs)
                /\ out.reminders # reminders =>
                      /\ out.reply = "done"
                      /\ (T > now => \E j \in out.jobs : j.rid = nextId)

====
